---- MODULE Spec2Model ----
(***************************************************************************)
(* Model of streamlit_app.py (SWAT Weather Data Builder): the batch loop   *)
(* of main, process_large_climate_data (open, buffered crop) and           *)
(* process_climate_data_from_array (grid scan, record files, registry).    *)
(*                                                                         *)
(* Text is modelled as sequences of one-character strings; a file is a     *)
(* sequence of lines. Coordinates and data values are fixed-point numbers  *)
(* in tenths (4 stands for 0.4, 102 for 10.2), so that every area and      *)
(* comparison is exact. Boundary features are axis-aligned rectangles.     *)
(***************************************************************************)
EXTENDS Integers, Sequences, FiniteSets, TLC

(* ------------------------------------------------------------------ *)
(* Bounds of the model                                                 *)
(* ------------------------------------------------------------------ *)

\* Longest batch of NetCDF files handed to main.
MaxBatch == 2

\* Number of injected environment failures (I/O errors, geometry errors) per execution.
MaxFaults == 1

(* ------------------------------------------------------------------ *)
(* Text                                                                *)
(* ------------------------------------------------------------------ *)

LowerChars ==
  <<"a","b","c","d","e","f","g","h","i","j","k","l","m",
    "n","o","p","q","r","s","t","u","v","w","x","y","z">>

UpperChars ==
  <<"A","B","C","D","E","F","G","H","I","J","K","L","M",
    "N","O","P","Q","R","S","T","U","V","W","X","Y","Z">>

DigitChars == <<"0","1","2","3","4","5","6","7","8","9">>

\* str.upper()
StrUpper(s) ==
  [k \in 1..Len(s) |->
     IF \E n \in 1..26 : LowerChars[n] = s[k]
       THEN UpperChars[CHOOSE n \in 1..26 : LowerChars[n] = s[k]]
       ELSE s[k]]

\* str.lower()
StrLower(s) ==
  [k \in 1..Len(s) |->
     IF \E n \in 1..26 : UpperChars[n] = s[k]
       THEN LowerChars[CHOOSE n \in 1..26 : UpperChars[n] = s[k]]
       ELSE s[k]]

\* keyword in s
StrContains(s, kw) ==
  \E k \in 0..(Len(s) - Len(kw)) : SubSeq(s, k + 1, k + Len(kw)) = kw

\* s.replace(old, new), old non-empty
RECURSIVE StrReplace(_, _, _)
StrReplace(s, old, new) ==
  IF Len(s) < Len(old) THEN s
  ELSE IF SubSeq(s, 1, Len(old)) = old
    THEN new \o StrReplace(SubSeq(s, Len(old) + 1, Len(s)), old, new)
    ELSE <<s[1]>> \o StrReplace(Tail(s), old, new)

\* decimal text of a natural number
RECURSIVE NatStr(_)
NatStr(n) ==
  IF n < 10 THEN <<DigitChars[n + 1]>>
  ELSE NatStr(n \div 10) \o <<DigitChars[(n % 10) + 1]>>

\* f'{idx}' for an integer
IntStr(n) == IF n < 0 THEN <<"-">> \o NatStr(0 - n) ELSE NatStr(n)

\* the number no-data cells hold (NaN)
NaN == -9999

\* text of a float as to_csv writes it; x is in tenths; NaN is written as the empty field
FloatStr(x) ==
  IF x = NaN THEN <<>>
  ELSE LET a == IF x < 0 THEN 0 - x ELSE x
       IN  (IF x < 0 THEN <<"-">> ELSE <<>>) \o NatStr(a \div 10) \o <<".">> \o NatStr(a % 10)

\* n written with at least w digits (strftime zero padding)
RECURSIVE ZeroPad(_, _)
ZeroPad(s, w) == IF Len(s) >= w THEN s ELSE ZeroPad(<<"0">> \o s, w)

\* date.strftime('%Y-%m-%d')
Strftime(d) ==
  ZeroPad(NatStr(d.y), 4) \o <<"-">> \o ZeroPad(NatStr(d.m), 2) \o <<"-">> \o ZeroPad(NatStr(d.d), 2)

\* value of a digit string
RECURSIVE DigitsVal(_)
DigitsVal(s) ==
  IF s = <<>> THEN 0
  ELSE 10 * DigitsVal(SubSeq(s, 1, Len(s) - 1))
       + ((CHOOSE n \in 1..10 : DigitChars[n] = s[Len(s)]) - 1)

\* the timestamp a 'YYYY-MM-DD' slice bound denotes
ParseDate(s) ==
  [y |-> DigitsVal(SubSeq(s, 1, 4)), m |-> DigitsVal(SubSeq(s, 6, 7)), d |-> DigitsVal(SubSeq(s, 9, 10))]

\* order of timestamps
DateLeq(a, b) ==
  \/ a.y < b.y
  \/ a.y = b.y /\ a.m < b.m
  \/ a.y = b.y /\ a.m = b.m /\ a.d <= b.d

(* ------------------------------------------------------------------ *)
(* Inputs: boundaries, datasets, date windows                          *)
(* ------------------------------------------------------------------ *)

Rect(x1, y1, x2, y2) == [minx |-> x1, miny |-> y1, maxx |-> x2, maxy |-> y2]

\* one square feature covering exactly the four cells centred at lat, lon in {0.0, 0.4};
\* the cells of the column lon = 0.8 touch it along the edge x = 0.6
BSquare == << Rect(-2, -2, 6, 6) >>

\* two features: the first overlaps the column lon = 0.0, the second the columns 0.4 and 0.8
BTwoParts == << Rect(-3, -1, -1, 1), Rect(5, -1, 9, 1) >>

\* beside the grid: the buffered box still holds grid cells, none overlaps the feature
BBeside == << Rect(-5, -1, -3, 1) >>

\* so far west that the buffered box holds both latitudes and no longitude
BNoLon == << Rect(-20, -1, -18, 1) >>

\* far from the grid: the buffered box holds no grid coordinate at all
BFar == << Rect(100, 100, 104, 104) >>

Boundaries == {BSquare, BTwoParts, BBeside, BNoLon, BFar}

Day(n) == [y |-> 1990, m |-> 1, d |-> n]

\* the time axis of every dataset: 1990-01-01 .. 1990-01-03
TimeAxis == << Day(1), Day(2), Day(3) >>

\* requested (start, end): full coverage, partial, outside the coverage, start after end
Windows == { <<Day(1), Day(3)>>, <<Day(2), Day(3)>>, <<Day(5), Day(6)>>, <<Day(3), Day(1)>> }

NameRf == <<"r","f",".","n","c">>
NameX == <<"x",".","n","c">>
NameTmax == <<"t","m","a","x",".","n","c">>

\* a NetCDF file as find_nc_files lists it, with the coordinate vectors of its first variable
DsRf == [name |-> NameRf, lat |-> <<0, 4>>, lon |-> <<0, 4, 8>>, time |-> TimeAxis]
DsX == [name |-> NameX, lat |-> <<0, 4>>, lon |-> <<0, 4, 8>>, time |-> TimeAxis]
\* a single latitude: the resolution cannot be derived
DsTmax == [name |-> NameTmax, lat |-> <<0>>, lon |-> <<0, 4>>, time |-> TimeAxis]

Datasets == {DsRf, DsX, DsTmax}

\* value of the first data variable at (time, lat, lon), in tenths; one cell of DsRf holds
\* the series 10.2, 11.4, 9.8 and one sample is no-data
Val(ds, t, la, lo) ==
  IF la = 0 /\ lo = 0 THEN <<102, 114, 98>>[t.d]
  ELSE IF la = 4 /\ lo = 4 /\ t.d = 2 THEN NaN
  ELSE 100 * t.d + 10 * la + lo + Len(ds.name)

(* ------------------------------------------------------------------ *)
(* Geometry and cropping                                               *)
(* ------------------------------------------------------------------ *)

Abs(x) == IF x < 0 THEN 0 - x ELSE x
Min2(a, b) == IF a < b THEN a ELSE b
Max2(a, b) == IF a > b THEN a ELSE b

\* abs(float(lat[1] - lat[0])); the caller checks that two samples exist
Resolution(lat) == Abs(lat[2] - lat[1])

\* data_array.sel(c=slice(lo, hi)) on an increasing coordinate: both ends inclusive
SliceSel(axis, lo, hi) == SelectSeq(axis, LAMBDA v : lo <= v /\ v <= hi)

\* data_array.sel(time=slice(start_date, end_date)) with 'YYYY-MM-DD' strings
SliceTime(axis, s, e) ==
  SelectSeq(axis, LAMBDA t : DateLeq(ParseDate(s), t) /\ DateLeq(t, ParseDate(e)))

\* lines 72-88: the box is taken from row 0 of shape_file.bounds, buffered by 2 x resolution
Crop(ds, shape, s, e) ==
  LET resolution == Resolution(ds.lat)
      buffer == resolution * 2
      min_lat == shape[1].miny - buffer
      max_lat == shape[1].maxy + buffer
      min_lon == shape[1].minx - buffer
      max_lon == shape[1].maxx + buffer
  IN  [name |-> ds.name,
       lat |-> SliceSel(ds.lat, min_lat, max_lat),
       lon |-> SliceSel(ds.lon, min_lon, max_lon),
       time |-> SliceTime(ds.time, s, e)]

\* lines 136-144: the cell rectangle, resolution x resolution around the centre
GridPoly(lat_cent, lon_cent, resolution) ==
  Rect(lon_cent - resolution \div 2, lat_cent - resolution \div 2,
       lon_cent + resolution \div 2, lat_cent + resolution \div 2)

RectArea(r) == (r.maxx - r.minx) * (r.maxy - r.miny)

\* area of the intersection of two rectangles, 0 when they touch or are apart
InterArea(a, b) ==
  Max2(0, Min2(a.maxx, b.maxx) - Max2(a.minx, b.minx))
  * Max2(0, Min2(a.maxy, b.maxy) - Max2(a.miny, b.miny))

\* gpd.overlay(shape_file, grid_poly, how='intersection').area: one row per feature whose
\* intersection with the cell is a polygon; line and point results are not kept
OverlayAreas(shape, grid_poly) ==
  SelectSeq([k \in 1..Len(shape) |-> InterArea(shape[k], grid_poly)], LAMBDA a : a > 0)

\* lines 150-153: len(intersect_poly) > 0 and area[0] / grid_poly.area[0] > 0
Qualifies(shape, grid_poly) ==
  LET intersect_area == OverlayAreas(shape, grid_poly)
  IN  /\ Len(intersect_area) > 0
      /\ intersect_area[1] * RectArea(grid_poly) > 0

(* ------------------------------------------------------------------ *)
(* Naming                                                              *)
(* ------------------------------------------------------------------ *)

KwRain == { <<"r","a","i","n">>, <<"p","r","e","c","i","p">>, <<"p","c","p">>, <<"r","f">> }
KwTemp == { <<"t","e","m","p">>, <<"t","m","a","x">>, <<"t","m","i","n">> }

\* lines 352-358: the data type from the file name, i is the 1-based position in the batch
DataTypeOf(name, i) ==
  LET filename_lower == StrLower(name)
  IN  IF \E kw \in KwRain : StrContains(filename_lower, kw)
        THEN <<"r","a","i","n","f","a","l","l">>
      ELSE IF \E kw \in KwTemp : StrContains(filename_lower, kw)
        THEN <<"t","e","m","p","e","r","a","t","u","r","e">>
      ELSE <<"c","l","i","m","a","t","e","_","v","a","r","_">> \o IntStr(i)

\* line 349: File_{i+1}_{name without .nc}
OutputDirOf(name, i) ==
  <<"F","i","l","e","_">> \o IntStr(i) \o <<"_">> \o StrReplace(name, <<".","n","c">>, <<>>)

\* lines 158, 167: f'{data_type.upper()}{idx}'
StationName(dt, n) == StrUpper(dt) \o IntStr(n)

\* line 158: the record file of station number n
RecordFile(dt, n) == StationName(dt, n) \o <<".","c","s","v">>

\* lines 155-159: the series of cell (la, lo) over the cropped time axis, one value per line
SeriesLines(arr, la, lo) ==
  [t \in 1..Len(arr.time) |-> FloatStr(Val(arr, arr.time[t], la, lo))]

\* lines 15-23: the date line put in front of the content
WithDateHeader(content, date_string) == <<date_string>> \o content

\* the registry with the coordinate columns exchanged
RegistryRowsSwapped(ids, names, la, lo) ==
  [k \in 1..Len(ids) |-> <<ids[k], names[k], lo[k], la[k]>>]

\* lines 180-188: the four lists written column by column, one row per list position
RegistryRows(ids, names, la, lo) ==
  [k \in 1..Len(ids) |-> <<ids[k], names[k], la[k], lo[k]>>]

(* ------------------------------------------------------------------ *)
(* State                                                               *)
(* ------------------------------------------------------------------ *)

VARIABLES
  shape_file,          \* the boundary: a sequence of features
  start_date_str,      \* 'YYYY-MM-DD'
  end_date_str,
  nc_files,            \* the batch, in list order
  pc,                  \* "main", "init", "cropped", "scanning", "finalizing", "done", "aborted", "end"
  mi,                  \* main's loop position: i + 1 of the file being processed, 0 before the first
  data_type,           \* arguments and locals of the run in progress
  sliced_data,
  ci, cj,              \* the scan position (i, j), 1-based
  idx,
  station_ids, station_names, lats, lons,
  ret,                 \* value returned by process_large_climate_data
  msg,                 \* what the run reported: "none", "warning" (line 122), "error" (line 99)
  fs,                  \* per file of the batch: its output directory
  processed_datasets,  \* main's list of output directories to package
  total_stations,
  attempts,            \* history: positions of the files handed to process_large_climate_data
  skipped,             \* history: cells (i, j) of this run left by the except branch of the scan
  fileLog,             \* history: <<idx, <<i, j>>>> for every record file this run created
  results,             \* history: per processed file, what main got back and how the run ended
  faults               \* history: the batch position hit by each failure injected so far

vars ==
  << shape_file, start_date_str, end_date_str, nc_files, pc, mi, data_type, sliced_data,
     ci, cj, idx, station_ids, station_names, lats, lons, ret, msg, fs,
     processed_datasets, total_stations, attempts, skipped, fileLog, results, faults >>

inputs == << shape_file, start_date_str, end_date_str, nc_files >>

runLocals == << data_type, sliced_data, ci, cj, idx, station_ids, station_names, lats, lons >>

mainLocals == << processed_datasets, total_stations >>

\* an output directory that does not exist yet
NoDir == [made |-> FALSE, files |-> << >>, station_file |-> [present |-> FALSE, rows |-> << >>]]

\* the array before any crop
NoArray == [name |-> << >>, lat |-> << >>, lon |-> << >>, time |-> << >>]

\* all batches of 1..n files; a directory holds no two files of the same name
BatchesUpTo(n) ==
  { b \in UNION { [1..k -> Datasets] : k \in 1..n } :
      \A p, q \in DOMAIN b : b[p].name = b[q].name => p = q }

InitWith(batches) ==
  /\ shape_file \in Boundaries
  /\ \E w \in Windows :
       /\ start_date_str = Strftime(w[1])
       /\ end_date_str = Strftime(w[2])
  /\ nc_files \in batches
  /\ pc = "main"
  /\ mi = 0
  /\ data_type = << >>
  /\ sliced_data = NoArray
  /\ ci = 1 /\ cj = 1
  /\ idx = 1
  /\ station_ids = << >> /\ station_names = << >> /\ lats = << >> /\ lons = << >>
  /\ ret = 0
  /\ msg = "none"
  /\ fs = [k \in 1..Len(nc_files) |-> NoDir]
  /\ processed_datasets = << >>
  /\ total_stations = 0
  /\ attempts = << >>
  /\ skipped = {}
  /\ fileLog = << >>
  /\ results = << >>
  /\ faults = << >>

\* one file per batch
Init == InitWith(BatchesUpTo(1))

\* batches of several files, every requested window
InitBatch == InitWith(BatchesUpTo(MaxBatch))

MayFail == Len(faults) < MaxFaults

(* ------------------------------------------------------------------ *)
(* main, lines 345-364: next file of the batch                         *)
(* ------------------------------------------------------------------ *)

MainNext ==
  /\ pc = "main"
  /\ mi < Len(nc_files)
  /\ mi' = mi + 1
  /\ data_type' = DataTypeOf(nc_files[mi + 1].name, mi + 1)
  /\ attempts' = Append(attempts, mi + 1)
  /\ pc' = "init"
  /\ sliced_data' = NoArray
  /\ ci' = 1 /\ cj' = 1 /\ idx' = 1
  /\ station_ids' = << >> /\ station_names' = << >> /\ lats' = << >> /\ lons' = << >>
  /\ ret' = 0
  /\ msg' = "none"
  /\ skipped' = {}
  /\ fileLog' = << >>
  /\ UNCHANGED << inputs, fs, mainLocals, results, faults >>

(* ------------------------------------------------------------------ *)
(* process_large_climate_data, lines 60-100                            *)
(* ------------------------------------------------------------------ *)

\* the exception leaves process_large_climate_data and ends main's loop (line 394)
AbortPropagates ==
  /\ pc' = "end"
  /\ ret' = 0
  /\ msg' = "error"

\* line 98-100: any exception is reported and 0 is returned
Abort ==
  /\ pc' = "aborted"
  /\ ret' = 0
  /\ msg' = "error"

OpenAndSlice ==
  /\ pc = "init"
  /\ LET ds == nc_files[mi] IN
       \/ \* xr.open_dataset fails: unreadable source
          /\ MayFail
          /\ faults' = Append(faults, mi)
          /\ Abort
          /\ UNCHANGED sliced_data
       \/ \* line 73: lat[1] does not exist
          /\ Len(ds.lat) < 2
          /\ Abort
          /\ UNCHANGED << sliced_data, faults >>
       \/ /\ Len(ds.lat) >= 2
          /\ sliced_data' = Crop(ds, shape_file, start_date_str, end_date_str)
          /\ pc' = "cropped"
          /\ UNCHANGED << ret, msg, faults >>
  /\ UNCHANGED << inputs, mi, data_type, ci, cj, idx, station_ids, station_names, lats, lons,
                  fs, mainLocals, attempts, skipped, fileLog, results >>

(* ------------------------------------------------------------------ *)
(* process_climate_data_from_array, lines 105-126                      *)
(* ------------------------------------------------------------------ *)

BeginScan ==
  /\ pc = "cropped"
  /\ \/ \* line 106: lat[1] does not exist in the cropped array
        /\ Len(sliced_data.lat) < 2
        /\ Abort
        /\ UNCHANGED << idx, station_ids, station_names, lats, lons, fs, faults >>
     \/ \* line 117: os.makedirs fails
        /\ Len(sliced_data.lat) >= 2
        /\ MayFail
        /\ faults' = Append(faults, mi)
        /\ Abort
        /\ UNCHANGED << idx, station_ids, station_names, lats, lons, fs >>
     \/ /\ Len(sliced_data.lat) >= 2
        /\ station_ids' = << <<"I","D">> >>
        /\ station_names' = << <<"N","a","m","e">> >>
        /\ lats' = << <<"L","a","t">> >>
        /\ lons' = << <<"L","o","n">> >>
        /\ idx' = 1
        /\ fs' = [fs EXCEPT ![mi].made = TRUE]
        /\ LET total_cells == Len(sliced_data.lat) * Len(sliced_data.lon) IN
             IF total_cells = 0
               THEN \* lines 121-123
                    /\ msg' = "warning"
                    /\ ret' = 0
                    /\ pc' = "done"
               ELSE /\ pc' = "scanning"
                    /\ UNCHANGED << ret, msg >>
        /\ UNCHANGED faults
  /\ ci' = 1 /\ cj' = 1
  /\ UNCHANGED << inputs, mi, data_type, sliced_data, mainLocals, attempts, skipped, fileLog, results >>

(* ------------------------------------------------------------------ *)
(* process_climate_data_from_array, lines 129-177: one cell of the scan *)
(* ------------------------------------------------------------------ *)

\* what can go wrong inside one iteration; "none" is the run without failure
CellFaults ==
  { "none",
    "overlay",          \* gpd.overlay or the area computation raises
    "read",             \* data_array[:, i, j].to_pandas() raises
    "write_nofile",     \* to_csv raises before the file exists
    "write_partial",    \* to_csv raises after the file was created
    "header_read",      \* insert_date_header: an open raises, the file keeps its content
    "header_write" }    \* insert_date_header: the file was truncated, then a write raises

\* the contents a failed write can leave: a proper prefix of the lines
Prefixes(lines) == { SubSeq(lines, 1, n) : n \in 0..(Len(lines) - 1) }

\* the next scan position in row-major order, i outer, j inner
NextCell(i, j, ncols) == IF j < ncols THEN <<i, j + 1>> ELSE <<i + 1, 1>>

ScanCell ==
  /\ pc = "scanning"
  /\ LET lat_cent == sliced_data.lat[ci]
         lon_cent == sliced_data.lon[cj]
         resolution == Resolution(sliced_data.lat)
         grid_poly == GridPoly(lat_cent, lon_cent, resolution)
         hit == Qualifies(shape_file, grid_poly)
         content == SeriesLines(sliced_data, lat_cent, lon_cent)
         filename == RecordFile(data_type, idx)
         file_start_date == StrReplace(start_date_str, <<"-">>, << >>)
         nxt == NextCell(ci, cj, Len(sliced_data.lon))
         advance ==
           /\ ci' = nxt[1]
           /\ cj' = nxt[2]
           /\ pc' = IF nxt[1] > Len(sliced_data.lat) THEN "finalizing" ELSE "scanning"
           /\ UNCHANGED << ret, msg >>
         skip ==
           /\ skipped' = skipped \cup { <<ci, cj>> }
           /\ UNCHANGED << idx, station_ids, station_names, lats, lons >>
         register(stored) ==
           /\ fs' = [fs EXCEPT ![mi].files = (filename :> stored) @@ @]
           /\ fileLog' = Append(fileLog, <<idx, <<ci, cj>>>>)
           /\ station_ids' = Append(station_ids, IntStr(idx))
           /\ station_names' = Append(station_names, StationName(data_type, idx))
           /\ lats' = Append(lats, FloatStr(lat_cent))
           /\ lons' = Append(lons, FloatStr(lon_cent))
           /\ idx' = idx + 1
           /\ UNCHANGED skipped
     IN
       \/ \* lines 132-133, outside the try: data_array[0, i, j] on an empty time axis
          /\ Len(sliced_data.time) = 0
          /\ Abort
          /\ UNCHANGED << ci, cj, idx, station_ids, station_names, lats, lons, fs,
                          skipped, fileLog, faults >>
       \/ /\ Len(sliced_data.time) > 0
          /\ \E f \in CellFaults :
               /\ f # "none" => MayFail
               /\ faults' = IF f = "none" THEN faults ELSE Append(faults, mi)
               /\ \/ /\ f = "overlay"
                     /\ skip
                     /\ UNCHANGED << fs, fileLog >>
                  \/ \* the cell does not qualify: nothing is written
                     /\ f = "none"
                     /\ ~hit
                     /\ UNCHANGED << idx, station_ids, station_names, lats, lons, fs,
                                     skipped, fileLog >>
                  \/ /\ f \in {"read", "write_nofile"}
                     /\ hit
                     /\ skip
                     /\ UNCHANGED << fs, fileLog >>
                  \/ /\ f = "write_partial"
                     /\ hit
                     /\ \E part \in Prefixes(content) :
                          fs' = [fs EXCEPT ![mi].files = (filename :> part) @@ @]
                     /\ fileLog' = Append(fileLog, <<idx, <<ci, cj>>>>)
                     /\ skip
                  \/ \* lines 154-171 without failure
                     /\ f = "none"
                     /\ hit
                     /\ register(WithDateHeader(content, file_start_date))
                  \/ \* lines 24-25: the failure is reported and the scan goes on
                     /\ f = "header_read"
                     /\ hit
                     /\ register(content)
                  \/ /\ f = "header_write"
                     /\ hit
                     /\ \E part \in Prefixes(WithDateHeader(content, file_start_date)) :
                          register(part)
          /\ advance
  /\ UNCHANGED << inputs, mi, data_type, sliced_data, mainLocals, attempts, results >>

(* ------------------------------------------------------------------ *)
(* process_climate_data_from_array, lines 179-190: the registry        *)
(* ------------------------------------------------------------------ *)

WriteRegistry ==
  /\ pc = "finalizing"
  /\ LET rows == RegistryRows(station_ids, station_names, lats, lons) IN
       \/ /\ fs' = [fs EXCEPT ![mi].station_file = [present |-> TRUE, rows |-> rows]]
          /\ ret' = idx - 1
          /\ pc' = "done"
          /\ UNCHANGED << msg, faults >>
       \/ \* to_csv raises before the file exists
          /\ MayFail
          /\ faults' = Append(faults, mi)
          /\ Abort
          /\ UNCHANGED fs
       \/ \* to_csv raises after the file was created
          /\ MayFail
          /\ faults' = Append(faults, mi)
          /\ Abort
          /\ \E part \in Prefixes(rows) :
               fs' = [fs EXCEPT ![mi].station_file = [present |-> TRUE, rows |-> part]]
  /\ UNCHANGED << inputs, mi, runLocals, mainLocals, attempts, skipped, fileLog, results >>

(* ------------------------------------------------------------------ *)
(* main, lines 366-392                                                 *)
(* ------------------------------------------------------------------ *)

\* lines 366-371: the directory is packaged only when stations were created
MainCollect ==
  /\ pc \in {"done", "aborted"}
  /\ LET stations_created == ret IN
       IF stations_created > 0
         THEN /\ processed_datasets' = Append(processed_datasets, OutputDirOf(nc_files[mi].name, mi))
              /\ total_stations' = total_stations + stations_created
         ELSE UNCHANGED << processed_datasets, total_stations >>
  /\ results' = Append(results, [count |-> ret, outcome |-> pc, msg |-> msg])
  /\ pc' = "main"
  /\ UNCHANGED << inputs, mi, runLocals, ret, msg, fs, attempts, skipped, fileLog, faults >>

\* lines 373-392: the loop is over
MainFinish ==
  /\ pc = "main"
  /\ mi = Len(nc_files)
  /\ pc' = "end"
  /\ UNCHANGED << inputs, mi, runLocals, ret, msg, fs, mainLocals, attempts, skipped,
                  fileLog, results, faults >>

Next ==
  \/ MainNext
  \/ OpenAndSlice
  \/ BeginScan
  \/ ScanCell
  \/ WriteRegistry
  \/ MainCollect
  \/ MainFinish

Spec == Init /\ [][Next]_vars

SpecBatch == InitBatch /\ [][Next]_vars

(* ------------------------------------------------------------------ *)
(* Reference definitions used by the properties                        *)
(* ------------------------------------------------------------------ *)

Range(q) == { q[k] : k \in DOMAIN q }

\* the cell centred at (la, lo) shares a region of positive area with some boundary feature
OverlapsBoundary(la, lo, res) ==
  \E k \in 1..Len(shape_file) : InterArea(shape_file[k], GridPoly(la, lo, res)) > 0

\* the cells of the whole grid of ds that overlap the boundary
PositiveCells(ds) ==
  { c \in Range(ds.lat) \X Range(ds.lon) : OverlapsBoundary(c[1], c[2], Resolution(ds.lat)) }

\* the index pairs of an array in row-major order
ScanOrder(arr) ==
  [n \in 1..(Len(arr.lat) * Len(arr.lon)) |->
     << ((n - 1) \div Len(arr.lon)) + 1, ((n - 1) % Len(arr.lon)) + 1 >>]

\* the cells of arr that overlap the boundary and are not in the set gone, in scan order
StationCells(arr, gone) ==
  SelectSeq(ScanOrder(arr),
            LAMBDA c : /\ OverlapsBoundary(arr.lat[c[1]], arr.lon[c[2]], Resolution(arr.lat))
                       /\ c \notin gone)

\* YYYYMMDD of a 'YYYY-MM-DD' string
CompactDate(s) == SubSeq(s, 1, 4) \o SubSeq(s, 6, 7) \o SubSeq(s, 9, 10)

\* the record of cell c of arr: the date line, then one value per time step
ExpectedRecord(arr, c) ==
  <<CompactDate(start_date_str)>>
  \o [t \in 1..Len(arr.time) |-> FloatStr(Val(arr, arr.time[t], arr.lat[c[1]], arr.lon[c[2]]))]

\* the upper-cased label of the three file names at batch position i
ExpectedPrefix(name, i) ==
  IF name = NameRf THEN <<"R","A","I","N","F","A","L","L">>
  ELSE IF name = NameTmax THEN <<"T","E","M","P","E","R","A","T","U","R","E">>
  ELSE <<"C","L","I","M","A","T","E","_","V","A","R","_">> \o IntStr(i)

\* registry rows for the station cells cells of arr under the given header row
ExpectedRegistry(header, prefix, arr, cells) ==
  <<header>>
  \o [k \in 1..Len(cells) |->
        << IntStr(k), prefix \o IntStr(k),
           FloatStr(arr.lat[cells[k][1]]), FloatStr(arr.lon[cells[k][2]]) >>]

HeaderNameRow == << <<"I","D">>, <<"N","a","m","e">>, <<"L","a","t">>, <<"L","o","n">> >>

HeaderColumnRow ==
  << <<"I","D">>, <<"s","t","a","t","i","o","n","_","n","a","m","e","s">>,
     <<"L","a","t">>, <<"L","o","n">> >>

RunOver == pc \in {"done", "aborted"}

NoFault == faults = << >>

(* ------------------------------------------------------------------ *)
(* C1                                                                  *)
(* ------------------------------------------------------------------ *)

\* C1: when a run without any failure returns from the registry write, the number of
\* stations created equals the number of cells of the whole grid whose rectangle has a
\* strictly positive intersection area with the boundary (all of its features).
C1_StationCount ==
  (pc = "done" /\ NoFault) => ret = Cardinality(PositiveCells(nc_files[mi]))

(* ------------------------------------------------------------------ *)
(* C2                                                                  *)
(* ------------------------------------------------------------------ *)

\* C2: an id once used for a record file is never used again for a different cell, also
\* when cells are skipped by the except branch.
C2_IdNeverReused ==
  \A a, b \in DOMAIN fileLog :
    fileLog[a][1] = fileLog[b][1] => fileLog[a][2] = fileLog[b][2]

(* ------------------------------------------------------------------ *)
(* C3                                                                  *)
(* ------------------------------------------------------------------ *)

RegistryIs(header) ==
  (pc = "done" /\ fs[mi].station_file.present) =>
    fs[mi].station_file.rows =
      ExpectedRegistry(header, ExpectedPrefix(nc_files[mi].name, mi), sliced_data,
                       StationCells(sliced_data, skipped))

\* C3 as amended: the registry written at the end of a run is the row ID,Name,Lat,Lon
\* followed by one row per station in creation order, row k holding k, PREFIX + k and the
\* centre of the k-th cell of the scan that overlaps the boundary and was not skipped.
C3_Registry == RegistryIs(HeaderNameRow)

\* C3 as stated: the same with the header row ID,station_names,Lat,Lon.
C3_RegistryAsStated == RegistryIs(HeaderColumnRow)

\* a registry with at least two stations, written after a cell was skipped
C3_Witness ==
  /\ pc = "done"
  /\ fs[mi].station_file.present
  /\ Len(fs[mi].station_file.rows) >= 3
  /\ skipped # {}

(* ------------------------------------------------------------------ *)
(* C4                                                                  *)
(* ------------------------------------------------------------------ *)

\* C4: a run without failure over a non-empty date window whose boundary overlaps no cell
\* of the grid ends with a registry file holding the header row only, returns 0 and
\* reports no error.
C4_HeaderOnlyRegistry ==
  ( /\ RunOver
    /\ NoFault
    /\ Len(nc_files[mi].lat) >= 2
    /\ PositiveCells(nc_files[mi]) = {}
    /\ SliceTime(nc_files[mi].time, start_date_str, end_date_str) # << >> )
  => ( /\ fs[mi].station_file.present
       /\ Len(fs[mi].station_file.rows) = 1
       /\ ret = 0
       /\ msg # "error" )

(* ------------------------------------------------------------------ *)
(* C5                                                                  *)
(* ------------------------------------------------------------------ *)

\* C5: once the scan is over, the record file of every station k holds the start date as
\* YYYYMMDD and then the values of its source cell, one per step of the cropped time axis,
\* in chronological order.
C5_RecordContent ==
  pc \in {"finalizing", "done"} =>
    LET cells == StationCells(sliced_data, skipped) IN
      /\ Len(cells) = idx - 1
      /\ \A k \in 1..(idx - 1) :
           /\ RecordFile(data_type, k) \in DOMAIN fs[mi].files
           /\ fs[mi].files[RecordFile(data_type, k)] = ExpectedRecord(sliced_data, cells[k])

(* ------------------------------------------------------------------ *)
(* C6                                                                  *)
(* ------------------------------------------------------------------ *)

\* C6: a run without failure whose date window misses the time axis while the spatial crop
\* holds cells returns 0, writes no record file, and ends as a normal return that reports
\* no error.
C6_EmptyWindow ==
  ( /\ RunOver
    /\ NoFault
    /\ Len(sliced_data.lat) >= 1
    /\ Len(sliced_data.lon) >= 1
    /\ Len(sliced_data.time) = 0 )
  => ( /\ ret = 0
       /\ DOMAIN fs[mi].files = {}
       /\ pc = "done"
       /\ msg # "error" )

(* ------------------------------------------------------------------ *)
(* C7                                                                  *)
(* ------------------------------------------------------------------ *)

\* C7: when the registry has been written, no record file created for a skipped cell is
\* left: a later station took over the file, or it never existed.
C7_SkipLeavesNoTrace ==
  pc = "done" =>
    \A n \in DOMAIN fileLog :
      fileLog[n][2] \in skipped =>
        \E m \in DOMAIN fileLog : m > n /\ fileLog[m][1] = fileLog[n][1]

(* ------------------------------------------------------------------ *)
(* C8                                                                  *)
(* ------------------------------------------------------------------ *)

\* C8: a run in which nothing failed aborts only from INIT or CROPPED; from SCANNING it goes
\* on to FINALIZING.
C8_AbortOnlyEarly ==
  [][ (pc' = "aborted" /\ pc # "aborted" /\ faults' = << >>) => pc \in {"init", "cropped"} ]_vars

(* ------------------------------------------------------------------ *)
(* C10                                                                 *)
(* ------------------------------------------------------------------ *)

\* C10: when a run returns, the count equals the number of data rows of the registry, a
\* positive count comes with a registry, and the record files are exactly PREFIX1..PREFIXN.
C10_OutputsAgree ==
  RunOver =>
    /\ ret > 0 => ( /\ fs[mi].station_file.present
                    /\ Len(fs[mi].station_file.rows) = ret + 1 )
    /\ DOMAIN fs[mi].files = { RecordFile(data_type, k) : k \in 1..ret }

(* ------------------------------------------------------------------ *)
(* C9                                                                  *)
(* ------------------------------------------------------------------ *)

\* the record files of the station cells cells of arr under the label dt
ExpectedFiles(dt, arr, cells) ==
  [f \in { RecordFile(dt, k) : k \in 1..Len(cells) } |->
     ExpectedRecord(arr, cells[CHOOSE k \in 1..Len(cells) : RecordFile(dt, k) = f])]

\* what a run of ds without any failure leaves in its output directory under the label dt
ExpectedDir(ds, dt) ==
  IF Len(ds.lat) < 2 THEN NoDir
  ELSE LET arr == Crop(ds, shape_file, start_date_str, end_date_str) IN
    IF Len(arr.lat) < 2 THEN NoDir
    ELSE IF Len(arr.lon) = 0 \/ Len(arr.time) = 0 THEN [NoDir EXCEPT !.made = TRUE]
    ELSE LET cells == StationCells(arr, {}) IN
      [made |-> TRUE,
       files |-> ExpectedFiles(dt, arr, cells),
       station_file |->
         [present |-> TRUE,
          rows |-> ExpectedRegistry(HeaderNameRow, StrUpper(dt), arr, cells)]]

\* the station count such a run returns
ExpectedCount(ds) ==
  LET d == ExpectedDir(ds, << >>) IN
    IF d.station_file.present THEN Len(d.station_file.rows) - 1 ELSE 0

\* the files of the batch whose run ended in the except branch of process_large_climate_data
Failed == { q \in 1..Len(results) : results[q].outcome = "aborted" }

\* position of file p in the batch without the failed files
PositionWithoutFailed(p) == p - Cardinality({ q \in Failed : q < p })

AllAttemptedInOrder == attempts = [k \in 1..Len(nc_files) |-> k]

\* C9 as amended: when main is through the batch, every file was handed to
\* process_large_climate_data exactly once in list order, and every file that no failure hit
\* has the station count and the output directory content of a failure-free run at its own
\* list position, whatever happened to the other files.
C9_SiblingsUnaffected ==
  pc = "end" =>
    /\ AllAttemptedInOrder
    /\ Len(results) = Len(nc_files)
    /\ \A p \in 1..Len(nc_files) :
         p \notin Range(faults) =>
           /\ results[p].count = ExpectedCount(nc_files[p])
           /\ fs[p] = ExpectedDir(nc_files[p], DataTypeOf(nc_files[p].name, p))

\* C9 as stated: the outputs of a file that did not fail are those it has in the batch
\* without the failed files.
C9_AsIfAbsent ==
  pc = "end" =>
    /\ AllAttemptedInOrder
    /\ \A p \in 1..Len(nc_files) :
         (p \notin Range(faults) /\ p \notin Failed) =>
           /\ results[p].count = ExpectedCount(nc_files[p])
           /\ fs[p] = ExpectedDir(nc_files[p],
                                  DataTypeOf(nc_files[p].name, PositionWithoutFailed(p)))

\* a batch in which the first file failed fatally and a later file produced stations
C9_Witness ==
  /\ pc = "end"
  /\ Len(nc_files) >= 2
  /\ 1 \in Failed
  /\ \E p \in 2..Len(nc_files) : results[p].count > 0

====
